---- MODULE Spec2Model ----
(***************************************************************************)
(* path-chronicle: the CSV-backed path registry (FsoExpansion), its        *)
(* PathEntry schema and the filesystem it mirrors.                         *)
(*                                                                         *)
(* Text is a sequence of one-character strings, so that the conversions    *)
(* of the code (str(id), csv writing, pandas' read_csv type inference,     *)
(* pathlib parsing) are computed and not assumed.  A filesystem location   *)
(* is an absolute path: a sequence of segment names.  Symbolic links and   *)
(* ".." segments are outside the model.                                    *)
(***************************************************************************)
EXTENDS Integers, Sequences, FiniteSets, TLC

VARIABLES
    pc,            \* "new": FsoExpansion not yet constructed; "ready"; "crashed"
    paths,         \* FsoExpansion.paths: the in-memory list of PathEntry
    csv,           \* the backing file self.csv_file
    dirs,          \* directories on disk (absolute paths)
    files,         \* plain files on disk (absolute paths)
    cwd,           \* the working directory of the process
    project_root,  \* config.get("project_root"): an absolute path, or NoRoot
    calls,         \* the number of calls made on the object
    held,          \* the ids that entries of self.paths have held since construction
    loaded,        \* the list the constructor loaded from the backing file
    created,       \* the path texts create_*_and_save_csv has registered on this object
    last,          \* the last call: its name, arguments, outcome and the state before it
    module_file,   \* the generated module path_archives.py
    init_file      \* the generated __init__.py next to it

vars == <<pc, paths, csv, dirs, files, cwd, project_root, calls, held, loaded, created,
          last, module_file, init_file>>

(***************************************************************************)
(* Bounds of the model                                                     *)
(***************************************************************************)
MaxCalls == 2       \* the calls made on one FsoExpansion object

(***************************************************************************)
(* Text                                                                    *)
(***************************************************************************)
None == <<"<None>">>            \* Python's None where a str | None is held

Digits == {"0", "1", "2", "3", "4", "5", "6", "7", "8", "9"}

DigitVal(c) ==
    CASE c = "0" -> 0 [] c = "1" -> 1 [] c = "2" -> 2 [] c = "3" -> 3
      [] c = "4" -> 4 [] c = "5" -> 5 [] c = "6" -> 6 [] c = "7" -> 7
      [] c = "8" -> 8 [] c = "9" -> 9

DigitChar(n) ==
    CASE n = 0 -> "0" [] n = 1 -> "1" [] n = 2 -> "2" [] n = 3 -> "3"
      [] n = 4 -> "4" [] n = 5 -> "5" [] n = 6 -> "6" [] n = 7 -> "7"
      [] n = 8 -> "8" [] n = 9 -> "9"

AllDigits(t) == Len(t) > 0 /\ \A i \in 1..Len(t) : t[i] \in Digits

\* text that reads as a decimal integer, with an optional minus sign
IsIntText(t) ==
    \/ AllDigits(t)
    \/ Len(t) > 1 /\ t[1] = "-" /\ AllDigits(Tail(t))

RECURSIVE NatOfText(_)
NatOfText(t) ==
    IF t = <<>> THEN 0
    ELSE 10 * NatOfText(SubSeq(t, 1, Len(t) - 1)) + DigitVal(t[Len(t)])

IntOfText(t) == IF t[1] = "-" THEN 0 - NatOfText(Tail(t)) ELSE NatOfText(t)

RECURSIVE TextOfNat(_)
TextOfNat(n) ==
    IF n < 10 THEN <<DigitChar(n)>>
    ELSE TextOfNat(n \div 10) \o <<DigitChar(n % 10)>>

\* str(n)
TextOfInt(n) == IF n < 0 THEN <<"-">> \o TextOfNat(0 - n) ELSE TextOfNat(n)

(***************************************************************************)
(* pathlib                                                                 *)
(***************************************************************************)
RECURSIVE SplitSlash(_, _, _)
\* the segments of a path text: split at "/", empty and "." segments dropped
SplitSlash(t, cur, acc) ==
    LET flush == IF cur = <<>> \/ cur = <<".">> THEN acc ELSE Append(acc, cur)
    IN  IF t = <<>> THEN flush
        ELSE IF Head(t) = "/" THEN SplitSlash(Tail(t), <<>>, flush)
        ELSE SplitSlash(Tail(t), Append(cur, Head(t)), acc)

\* Path(text): absolute or relative, and its segments
PathOf(t) == [abs |-> t # <<>> /\ t[1] = "/", segs |-> SplitSlash(t, <<>>, <<>>)]

RECURSIVE JoinSlash(_)
JoinSlash(segs) ==
    IF segs = <<>> THEN <<>>
    ELSE IF Len(segs) = 1 THEN segs[1]
    ELSE segs[1] \o <<"/">> \o JoinSlash(Tail(segs))

\* str(path)
StrOf(p) ==
    IF p.abs THEN <<"/">> \o JoinSlash(p.segs)
    ELSE IF p.segs = <<>> THEN <<".">>
    ELSE JoinSlash(p.segs)

Abs(segs) == [abs |-> TRUE, segs |-> segs]

\* mutant of Rel: the segments are kept, but as an absolute path
Rel_kept_absolute(segs) == [abs |-> TRUE, segs |-> segs]

Rel(segs) == [abs |-> FALSE, segs |-> segs]

\* path.resolve(): a relative path is taken from the working directory
Resolve(p, wd) == IF p.abs THEN p.segs ELSE wd \o p.segs

\* a.is_relative_to(b), both absolute
IsPrefix(b, a) == Len(b) <= Len(a) /\ SubSeq(a, 1, Len(b)) = b

\* the text before the last dot of a name that has one after its first character
stem(t) ==
    LET dots == {i \in 2..Len(t) : t[i] = "."}
    IN  IF dots = {} THEN t
        ELSE SubSeq(t, 1, (CHOOSE i \in dots : \A j \in dots : j <= i) - 1)

\* mutant of NameOf: path.stem, the name without its suffix
NameOf_stem(segs) == IF segs = <<>> THEN <<>> ELSE stem(segs[Len(segs)])

\* path.name
NameOf(segs) == IF segs = <<>> THEN <<>> ELSE segs[Len(segs)]

ParentOf(segs) == SubSeq(segs, 1, Len(segs) - 1)

(***************************************************************************)
(* schema.py: PathEntry and check_header                                   *)
(*                                                                         *)
(* A value handed to PathEntry is a cell [t, s]: t is the Python type the  *)
(* value has ("str", "int", "float" or "none") and s its text.             *)
(***************************************************************************)
Str(t) == [t |-> "str", s |-> t]
NoneCell == [t |-> "none", s |-> <<>>]
Opt(d) == IF d = None THEN NoneCell ELSE Str(d)

ExpectedHeader == <<"id", "name", "path", "description">>

\* the grave accent (U+0060), which a TLA+ string literal cannot hold
Backtick == "grave"

InvalidChars ==
    {" ", "!", "@", "#", "$", "%", "^", "&", "*", "(", ")", "-", "+", "=",
     "[", "]", "{", "}", "|", "\\", ":", ";", "'", "\"", ",", "<", ">", "?",
     Backtick, "~"}

HasChar(t, cs) == \E i \in 1..Len(t) : t[i] \in cs

\* mutant of IdOk: zero is rejected too
IdOk_above_zero(id) == id > 0

\* id_must_be_positive
IdOk(id) == ~(id < 0)

\* str type, name_must_not_be_empty, name_must_not_contain_invalid_chars
NameOk(c) ==
    /\ c.t = "str"
    /\ c.s # <<>>
    /\ ~HasChar(c.s, InvalidChars)
    /\ ~HasChar(c.s, {"/"})

\* str type, path_must_not_be_empty
PathOk(c) == c.t = "str" /\ c.s # <<>>

\* str | None
DescriptionOk(c) == c.t \in {"str", "none"}

\* PathEntry(id=..., name=..., path=..., description=...) raises no ValidationError
EntryOk(id, name, path, description) ==
    IdOk(id) /\ NameOk(name) /\ PathOk(path) /\ DescriptionOk(description)

\* the messages of the ValidationError: one per field that fails; the
\* validators of one field run in the order they are defined and stop at
\* the first that raises
validation_errors(id, name, path, description) ==
    (IF IdOk(id) THEN {} ELSE {"id must be positive"})
    \cup (IF name.t # "str" THEN {"Input should be a valid string"}
          ELSE IF name.s = <<>> THEN {"name must not be empty"}
          ELSE IF HasChar(name.s, InvalidChars)
          THEN {"name must not contain invalid chars"}
          ELSE IF HasChar(name.s, {"/"})
          THEN {"name is file or directory name, not a path"}
          ELSE {})
    \cup (IF path.t # "str" THEN {"Input should be a valid string"}
          ELSE IF path.s = <<>> THEN {"path must not be empty"}
          ELSE {})
    \cup (IF DescriptionOk(description) THEN {} ELSE {"Input should be a valid string"})

\* the validated model object
PathEntry(id, name, path, description) ==
    [id |-> id, name |-> name.s, path |-> path.s,
     description |-> IF description.t = "none" THEN None ELSE description.s]

\* mutant of check_header: the field set is compared, the order is not
check_header_any_order(header) ==
    {header[i] : i \in 1..Len(header)} = {ExpectedHeader[i] : i \in 1..4}

check_header(header) == header = ExpectedHeader

\* what check_header prints to stderr: nothing, or one of its two messages
check_header_message(header) ==
    IF header = ExpectedHeader THEN "none"
    ELSE IF {header[i] : i \in 1..Len(header)} # {ExpectedHeader[i] : i \in 1..4}
    THEN "Invalid header in CSV file."
    ELSE "Header order is incorrect."

\* str.replace(".", "_")
replace_dots(t) == [i \in 1..Len(t) |-> IF t[i] = "." THEN "_" ELSE t[i]]

\* mutant of normalize_name: the leading dot is replaced like the others
normalize_every_dot(name) == replace_dots(name)

\* normalize_name: a leading dot is kept, every other dot becomes an underscore
normalize_name(name) ==
    IF name # <<>> /\ name[1] = "."
    THEN <<".">> \o replace_dots(Tail(name))
    ELSE replace_dots(name)

(***************************************************************************)
(* The backing file.  A file is [exists, header, rows]; a row holds the    *)
(* text of its four fields.  A zero-length file has no header line.        *)
(***************************************************************************)
AbsentFile == [exists |-> FALSE, header |-> <<>>, rows |-> <<>>]
File(header, rows) == [exists |-> TRUE, header |-> header, rows |-> rows]
Row(id, name, path, description) ==
    [id |-> id, name |-> name, path |-> path, description |-> description]

ZeroLength(f) == f.header = <<>> /\ f.rows = <<>>

(***************************************************************************)
(* pandas.read_csv with its defaults: a field whose text is one of the     *)
(* NA markers is NaN; a column whose other fields all read as integers is  *)
(* numeric (int64, or float64 when it also holds NaN); any other column    *)
(* holds str.                                                               *)
(***************************************************************************)
NATokens ==
    {<<>>, <<"N", "A">>, <<"N", "a", "N">>, <<"n", "a", "n">>,
     <<"n", "u", "l", "l">>, <<"N", "U", "L", "L">>, <<"N", "o", "n", "e">>,
     <<"N", "/", "A">>, <<"n", "/", "a">>}

IsNA(t) == t \in NATokens

ColKind(rows, f) ==
    LET texts == {rows[i][f] : i \in 1..Len(rows)}
        given == {t \in texts : ~IsNA(t)}
    IN  IF given = {} THEN "float"
        ELSE IF \A t \in given : IsIntText(t)
             THEN IF given = texts THEN "int" ELSE "float"
        ELSE "object"

\* df.iterrows() -> row.to_dict()[f], then NaN replaced by None (pd.notna)
Cell(rows, i, f) ==
    LET t == rows[i][f]
        k == ColKind(rows, f)
    IN  IF IsNA(t) THEN NoneCell
        ELSE IF k = "object" THEN Str(t)
        ELSE [t |-> k, s |-> t]

\* int(row_data["id"]) raises ValueError: NaN, or text that is no integer
IdRaises(rows, i) ==
    LET t == rows[i]["id"] IN IsNA(t) \/ ~IsIntText(t)

RowId(rows, i) == IntOfText(rows[i]["id"])

RowOk(rows, i) ==
    EntryOk(RowId(rows, i), Cell(rows, i, "name"), Cell(rows, i, "path"),
            Cell(rows, i, "description"))

RowEntry(rows, i) ==
    PathEntry(RowId(rows, i), Cell(rows, i, "name"), Cell(rows, i, "path"),
              Cell(rows, i, "description"))

RECURSIVE LoadRows(_, _, _, _)
\* the loop over df.iterrows(): valid rows appended, invalid ones reported by position
LoadRows(rows, i, acc, errs) ==
    IF i > Len(rows) THEN [raised |-> FALSE, paths |-> acc, error_paths |-> errs]
    ELSE IF IdRaises(rows, i) THEN [raised |-> TRUE, paths |-> acc, error_paths |-> errs]
    ELSE IF RowOk(rows, i)
         THEN LoadRows(rows, i + 1, Append(acc, RowEntry(rows, i)), errs)
    ELSE LoadRows(rows, i + 1, acc, Append(errs, i))

\* FsoExpansion._load_paths: raised = a ValueError leaves the method
LoadPaths(f) ==
    IF ~f.exists \/ ZeroLength(f)
    THEN [raised |-> FALSE, paths |-> <<>>, error_paths |-> <<>>]
    ELSE IF ~check_header(f.header)
    THEN [raised |-> TRUE, paths |-> <<>>, error_paths |-> <<>>]
    ELSE IF f.rows = <<>>
    THEN [raised |-> FALSE, paths |-> <<>>, error_paths |-> <<>>]
    ELSE LoadRows(f.rows, 1, <<>>, <<>>)

\* csv.DictWriter.writerow(path_info.model_dump()): None is written as the empty field
DumpRow(e) ==
    Row(TextOfInt(e.id), e.name, e.path,
        IF e.description = None THEN <<>> ELSE e.description)

\* mutant of SavePaths: the rows of the file that did not validate at load
\* are written back before the rows of the entries
SavePaths_keeping_rejected(ps) ==
    LET readable == csv.exists /\ ~ZeroLength(csv) /\ check_header(csv.header)
        idx == SelectSeq([i \in 1..Len(csv.rows) |-> i],
                         LAMBDA i : ~IdRaises(csv.rows, i) /\ ~RowOk(csv.rows, i))
        rejected == IF readable THEN [k \in 1..Len(idx) |-> csv.rows[idx[k]]] ELSE <<>>
    IN  File(ExpectedHeader, rejected \o [i \in 1..Len(ps) |-> DumpRow(ps[i])])

\* FsoExpansion._save_paths: the header, then one row per entry
SavePaths(ps) == File(ExpectedHeader, [i \in 1..Len(ps) |-> DumpRow(ps[i])])

(***************************************************************************)
(* The filesystem                                                          *)
(***************************************************************************)
Prefixes(p) == {SubSeq(p, 1, k) : k \in 0..Len(p)}

ExistsOn(ds, fs, p) == p \in ds \cup fs

ChildrenOn(ds, fs, p) == {q \in ds \cup fs : q # <<>> /\ ParentOf(q) = p}

\* p.mkdir(parents=True, exist_ok=True)
mkdir(ds, fs, p) ==
    IF Prefixes(p) \cap fs # {}
    THEN [raised |-> TRUE, dirs |-> ds, files |-> fs]
    ELSE [raised |-> FALSE, dirs |-> ds \cup Prefixes(p), files |-> fs]

\* p.touch(exist_ok=True)
touch(ds, fs, p) ==
    IF ExistsOn(ds, fs, p) THEN [raised |-> FALSE, dirs |-> ds, files |-> fs]
    ELSE IF p # <<>> /\ ParentOf(p) \in ds
    THEN [raised |-> FALSE, dirs |-> ds, files |-> fs \cup {p}]
    ELSE [raised |-> TRUE, dirs |-> ds, files |-> fs]

create_function(kind, ds, fs, p) ==
    IF kind = "dir" THEN mkdir(ds, fs, p) ELSE touch(ds, fs, p)

(***************************************************************************)
(* FsoExpansion                                                            *)
(***************************************************************************)
NoRoot == <<None>>              \* config.get("project_root") is None

Ids(ps) == {ps[i].id : i \in 1..Len(ps)}

\* mutants of next_id: the length of the list, and the id of its first entry
next_id_by_count(ps) == Len(ps) + 1
next_id_after_first(ps) == IF ps = <<>> THEN 1 ELSE ps[1].id + 1

\* max([p.id for p in self.paths], default=0) + 1
next_id(ps) ==
    IF ps = <<>> THEN 1
    ELSE (CHOOSE m \in Ids(ps) : \A n \in Ids(ps) : n <= m) + 1

\* the outcome of a call: what it returned and the state it left
Outcome(ok, ps, f, ds, fs) ==
    [ok |-> ok, paths |-> ps, csv |-> f, dirs |-> ds, files |-> fs]

Unchanged(ok) == Outcome(ok, paths, csv, dirs, files)

\* mutant of create_path_and_save_csv: the directory or file is made before
\* the entry is validated
create_path_then_validate(path, description, kind, is_save_to_csv) ==
    LET resolved == Resolve(PathOf(path), cwd)
        name == NameOf(resolved)
        rooted == project_root # NoRoot
        new_path == IF rooted
                    THEN Rel(SubSeq(resolved, Len(project_root) + 1, Len(resolved)))
                    ELSE Abs(resolved)
        create_path == IF rooted THEN project_root \o new_path.segs ELSE resolved
        id == next_id(paths)
        made == create_function(kind, dirs, files, create_path)
        appended == Append(paths, PathEntry(id, Str(name), Str(StrOf(new_path)),
                                            Str(description)))
    IN  IF rooted /\ ~IsPrefix(project_root, resolved) THEN Unchanged(FALSE)
        ELSE IF made.raised THEN Unchanged(FALSE)
        ELSE IF ~EntryOk(id, Str(name), Str(StrOf(new_path)), Str(description))
        THEN Outcome(FALSE, paths, csv, made.dirs, made.files)
        ELSE IF is_save_to_csv
        THEN Outcome(TRUE, appended, SavePaths(appended), made.dirs, made.files)
        ELSE Outcome(TRUE, paths, csv, made.dirs, made.files)

\* FsoExpansion._create_path_and_save_csv
create_path_and_save_csv(path, description, kind, is_save_to_csv) ==
    LET resolved == Resolve(PathOf(path), cwd)
        name == NameOf(resolved)
        rooted == project_root # NoRoot
        new_path == IF rooted
                    THEN Rel(SubSeq(resolved, Len(project_root) + 1, Len(resolved)))
                    ELSE Abs(resolved)
        create_path == IF rooted THEN project_root \o new_path.segs ELSE resolved
        id == next_id(paths)
        made == create_function(kind, dirs, files, create_path)
        appended == Append(paths, PathEntry(id, Str(name), Str(StrOf(new_path)),
                                            Str(description)))
    IN  IF rooted /\ ~IsPrefix(project_root, resolved) THEN Unchanged(FALSE)
        ELSE IF ~EntryOk(id, Str(name), Str(StrOf(new_path)), Str(description))
        THEN Unchanged(FALSE)
        ELSE IF made.raised THEN Unchanged(FALSE)
        ELSE IF is_save_to_csv
        THEN Outcome(TRUE, appended, SavePaths(appended), made.dirs, made.files)
        ELSE Outcome(TRUE, paths, csv, made.dirs, made.files)

\* a selector: the id, name and path arguments, each possibly None
Selector(hid, id, name, path) == [hid |-> hid, id |-> id, name |-> name, path |-> path]

First(S) == CHOOSE i \in S : \A j \in S : i <= j

\* FsoExpansion._find_target_path: the stored path text, or None
find_target_path(ps, sel) ==
    LET byId == {i \in 1..Len(ps) : ps[i].id = sel.id}
        byName == {i \in 1..Len(ps) : ps[i].name = sel.name}
        byPath == {i \in 1..Len(ps) : ps[i].path = sel.path}
    IN  IF sel.hid
        THEN IF byId = {} THEN None ELSE ps[First(byId)].path
        ELSE IF sel.name # None
        THEN IF byName = {} THEN None ELSE ps[First(byName)].path
        ELSE IF sel.path # None
        THEN IF byPath = {} THEN None ELSE sel.path
        ELSE None

\* mutant of kept_paths: the entries above the target are dropped as well
kept_paths_beside(ps, target) ==
    SelectSeq(ps, LAMBDA p : /\ ~IsPrefix(target, Resolve(PathOf(p.path), cwd))
                             /\ ~IsPrefix(Resolve(PathOf(p.path), cwd), target))

\* the entries _delete_path keeps: those not at or under the target
kept_paths(ps, target) ==
    SelectSeq(ps, LAMBDA p : ~IsPrefix(target, Resolve(PathOf(p.path), cwd)))

\* mutant of delete_path: the entries are dropped and the file is saved without
\* looking whether the target is on disk
delete_path_unchecked(target_path) ==
    LET target == Resolve(target_path, cwd)
        kept == kept_paths(paths, target)
        under == {q \in dirs \cup files : IsPrefix(target, q)}
    IN  {Outcome(TRUE, kept, SavePaths(kept), dirs \ under, files \ under)}

\* FsoExpansion._delete_path: every outcome it can have.  glob("**/*") yields a
\* directory before what it holds, so rmdir meets a sub-directory that is not
\* empty and raises; what was yielded before it is already deleted.
delete_path(target_path) ==
    LET target == Resolve(target_path, cwd)
        kept == kept_paths(paths, target)
        items == ChildrenOn(dirs, files, target)
        full == {d \in items \cap dirs : ChildrenOn(dirs, files, d) # {}}
    IN  IF ~ExistsOn(dirs, files, target) THEN {Unchanged(FALSE)}
        ELSE IF target \in files
        THEN {Outcome(TRUE, kept, SavePaths(kept), dirs, files \ {target})}
        ELSE IF full = {}
        THEN {Outcome(TRUE, kept, SavePaths(kept),
                      dirs \ (items \cup {target}), files \ items)}
        ELSE {Outcome(FALSE, kept, csv, dirs \ gone, files \ gone) :
                  gone \in SUBSET (items \ full)}

\* lines 211-217: a target under the project root is rebuilt from the root
rebased(target_path) ==
    IF /\ project_root # NoRoot
       /\ target_path.abs
       /\ IsPrefix(project_root, target_path.segs)
       /\ project_root # target_path.segs
    THEN Abs(project_root \o
             SubSeq(target_path.segs, Len(project_root) + 1, Len(target_path.segs)))
    ELSE target_path

\* FsoExpansion.remove_path_and_from_csv: every outcome it can have
remove_path_and_from_csv(sel) ==
    LET found == find_target_path(paths, sel)
    IN  IF paths = <<>> THEN {Unchanged(FALSE)}
        ELSE IF found = None THEN {Unchanged(FALSE)}
        ELSE delete_path(rebased(PathOf(found)))

\* mutant of edit_csv_to_add_path: under a project root the stored path is
\* the one relative to it, as in _create_path_and_save_csv
edit_csv_to_add_path_root_relative(path, description) ==
    LET path_obj == Resolve(PathOf(path), cwd)
        id == next_id(paths)
        name == Str(NameOf(path_obj))
        text == IF project_root # NoRoot /\ IsPrefix(project_root, path_obj)
                THEN Str(StrOf(Rel(SubSeq(path_obj, Len(project_root) + 1,
                                          Len(path_obj)))))
                ELSE Str(StrOf(Abs(path_obj)))
        appended == Append(paths, PathEntry(id, name, text, Opt(description)))
    IN  IF ~EntryOk(id, name, text, Opt(description)) THEN Unchanged(FALSE)
        ELSE Outcome(TRUE, appended, SavePaths(appended), dirs, files)

\* FsoExpansion.edit_csv_to_add_path
edit_csv_to_add_path(path, description) ==
    LET path_obj == Resolve(PathOf(path), cwd)
        id == next_id(paths)
        name == Str(NameOf(path_obj))
        text == Str(StrOf(Abs(path_obj)))
        appended == Append(paths, PathEntry(id, name, text, Opt(description)))
    IN  IF ~EntryOk(id, name, text, Opt(description)) THEN Unchanged(FALSE)
        ELSE Outcome(TRUE, appended, SavePaths(appended), dirs, files)

\* FsoExpansion.edit_csv_to_remove_path
edit_csv_to_remove_path(sel) ==
    LET byId == SelectSeq(paths, LAMBDA p : p.id # sel.id)
        byName == SelectSeq(paths, LAMBDA p : p.name # sel.name)
        byPath == SelectSeq(paths, LAMBDA p : p.path # sel.path)
    IN  IF sel.hid /\ sel.id # 0 /\ byId # paths
        THEN Outcome(TRUE, byId, SavePaths(byId), dirs, files)
        ELSE IF sel.name # None /\ sel.name # <<>> /\ byName # paths
        THEN Outcome(TRUE, byName, SavePaths(byName), dirs, files)
        ELSE IF sel.path # None /\ sel.path # <<>> /\ byPath # paths
        THEN Outcome(TRUE, byPath, SavePaths(byPath), dirs, files)
        ELSE Unchanged(FALSE)

(***************************************************************************)
(* The inputs of the model: names, locations, arguments, backing files     *)
(***************************************************************************)
nR == <<"r">>
nW == <<"w">>
nD == <<"d">>
nE == <<"e">>
nF == <<"f", ".", "t">>
n7 == <<"7">>
nH == <<"d", "-", "e">>         \* a name with a character PathEntry rejects
nZ == <<"z">>
tX == <<"x">>

Root == <<nR>>                  \* the project root /r
Work == <<nW>>                  \* another directory, /w

locD == <<nR, nD>>
locE == <<nR, nD, nE>>
locF == <<nR, nD, nE, nF>>
loc7 == <<nR, n7>>
locH == <<nR, nH>>
locW == <<nW, nE>>

\* create_dir_and_save_csv / create_file_and_save_csv and their path argument,
\* absolute or relative to the working directory
CreateCalls ==
    { [kind |-> "dir", path |-> StrOf(Abs(locD))],
      [kind |-> "dir", path |-> StrOf(Rel(<<nD>>))],
      [kind |-> "dir", path |-> StrOf(Abs(locE))],
      [kind |-> "file", path |-> StrOf(Abs(locE))],
      [kind |-> "file", path |-> StrOf(Abs(locF))],
      [kind |-> "file", path |-> StrOf(Abs(loc7))],
      [kind |-> "dir", path |-> StrOf(Abs(locH))] }

\* the path argument of edit_csv_to_add_path: absolute, relative, with a dot,
\* with a character PathEntry rejects
PathArgs == {StrOf(Abs(locD)), StrOf(Rel(<<nD>>)), StrOf(Abs(locF)), StrOf(Abs(locH))}

Descriptions == {<<>>, tX}

NoSelector == Selector(FALSE, 0, None, None)
ById(id) == Selector(TRUE, id, None, None)
ByName(name) == Selector(FALSE, 0, name, None)
ByPath(path) == Selector(FALSE, 0, None, path)

\* selectors with more than one argument given: the arguments name different
\* entries when the list holds several, and the id of the second one matches none
Combined(ps) ==
    IF ps = <<>> THEN {}
    ELSE {Selector(TRUE, ps[1].id, ps[Len(ps)].name, ps[Len(ps)].path),
          Selector(FALSE, 0, ps[1].name, ps[Len(ps)].path),
          Selector(TRUE, 9, ps[1].name, None)}

\* the selectors tried on a list: the ids, names and paths it holds, and some it does not
Selectors(ps) ==
    {ById(ps[i].id) : i \in 1..Len(ps)} \cup {ById(9)} \cup
    {ByName(ps[i].name) : i \in 1..Len(ps)} \cup {ByName(nZ)} \cup
    {ByPath(ps[i].path) : i \in 1..Len(ps)} \cup {ByPath(StrOf(Abs(locD)))}

rowD == Row(<<"1">>, nD, StrOf(Abs(locD)), tX)
rowE(id) == Row(id, nE, StrOf(Abs(locE)), <<>>)

InitFiles ==
    { AbsentFile,
      File(<<>>, <<>>),
      File(ExpectedHeader, <<>>),
      File(<<"invalid_header">>, <<>>),
      File(<<"name", "id", "path", "description">>, <<rowD>>),
      File(ExpectedHeader, <<rowD>>),
      File(ExpectedHeader, <<rowD, rowE(<<"3">>)>>),
      File(ExpectedHeader, <<rowD, rowE(<<"1">>)>>),
      File(ExpectedHeader, <<rowD, rowE(<<"-", "1">>)>>),
      File(ExpectedHeader, <<rowE(<<"-", "1">>), rowD>>),
      File(ExpectedHeader, <<rowD, rowE(<<"x">>)>>),
      File(ExpectedHeader, <<rowD, rowE(<<>>)>>),
      File(ExpectedHeader, <<Row(<<"2">>, n7, StrOf(Abs(loc7)), tX)>>),
      File(ExpectedHeader, <<Row(<<"0">>, nD, StrOf(Abs(locD)), tX), rowE(<<"3">>)>>) }

BaseDirs == {<<>>, Root, Work}

InitDisks ==
    { [dirs |-> BaseDirs, files |-> {}],
      [dirs |-> BaseDirs \cup {locD, locE}, files |-> {}] }

InitConfigs ==
    { [project_root |-> NoRoot, cwd |-> Root],
      [project_root |-> Root, cwd |-> Root],
      [project_root |-> Root, cwd |-> Work] }

\* the backing files tried with every disk and every configuration; the other
\* files differ from these in how they load, and are tried on the bare disk
\* without a project root
VariedFiles ==
    { AbsentFile,
      File(ExpectedHeader, <<rowD>>),
      File(ExpectedHeader, <<rowD, rowE(<<"3">>)>>) }

\* two entries with one name at different paths, the first of them a plain
\* file on disk
SharedNameFile ==
    File(ExpectedHeader, <<rowE(<<"1">>), Row(<<"2">>, nE, StrOf(Abs(locW)), tX)>>)

Scenarios ==
    {[csv |-> f, disk |-> d, config |-> c] :
        f \in VariedFiles, d \in InitDisks, c \in InitConfigs}
    \cup
    {[csv |-> f,
      disk |-> [dirs |-> BaseDirs, files |-> {}],
      config |-> [project_root |-> NoRoot, cwd |-> Root]] : f \in InitFiles}
    \cup
    {[csv |-> SharedNameFile,
      disk |-> [dirs |-> BaseDirs \cup {locD}, files |-> {locE}],
      config |-> [project_root |-> NoRoot, cwd |-> Root]]}

\* a generated file: absent, or the lines written to it
NotWritten == [exists |-> FALSE, lines |-> <<>>]
Written(lines) == [exists |-> TRUE, lines |-> lines]

generated == <<module_file, init_file>>

(***************************************************************************)
(* The state machine: one FsoExpansion object, constructed on the backing  *)
(* file and then called up to MaxCalls times.                              *)
(***************************************************************************)
Call(op, ok, path, description, kind, save, sel) ==
    [op |-> op, ok |-> ok, path |-> path, description |-> description,
     kind |-> kind, save |-> save, sel |-> sel,
     pre_paths |-> paths, pre_csv |-> csv, pre_dirs |-> dirs, pre_files |-> files,
     pre_held |-> held, pre_created |-> created]

Init ==
    /\ pc = "new"
    /\ calls = 0
    /\ paths = <<>>
    /\ held = {}
    /\ loaded = <<>>
    /\ created = {}
    /\ \E s \in Scenarios :
          /\ csv = s.csv
          /\ dirs = s.disk.dirs
          /\ files = s.disk.files
          /\ cwd = s.config.cwd
          /\ project_root = s.config.project_root
    /\ last = [op |-> "none", ok |-> TRUE, path |-> None, description |-> None,
               kind |-> "none", save |-> FALSE, sel |-> NoSelector,
               pre_paths |-> <<>>, pre_csv |-> AbsentFile,
               pre_dirs |-> {}, pre_files |-> {}, pre_held |-> {},
               pre_created |-> {}]
    /\ module_file = NotWritten
    /\ init_file = NotWritten

Apply(out) ==
    /\ paths' = out.paths
    /\ csv' = out.csv
    /\ dirs' = out.dirs
    /\ files' = out.files
    /\ held' = held \cup Ids(out.paths)
    /\ calls' = calls + 1

Ready == pc = "ready" /\ calls < MaxCalls

\* FsoExpansion.__init__: self.paths = self._load_paths()
Construct ==
    /\ pc = "new"
    /\ LET got == LoadPaths(csv)
       IN  /\ pc' = IF got.raised THEN "crashed" ELSE "ready"
           /\ paths' = IF got.raised THEN <<>> ELSE got.paths
           /\ held' = IF got.raised THEN {} ELSE Ids(got.paths)
           /\ loaded' = IF got.raised THEN <<>> ELSE got.paths
           /\ last' = Call("load", ~got.raised, None, None, "none", FALSE, NoSelector)
    /\ UNCHANGED <<calls, csv, dirs, files, cwd, project_root, created>>
    /\ UNCHANGED generated

\* create_dir_and_save_csv / create_file_and_save_csv; the description is the
\* default "", and for the directory /r/d also a text
Create ==
    /\ Ready
    /\ \E c \in CreateCalls, description \in Descriptions, save \in BOOLEAN :
          LET out == create_path_and_save_csv(c.path, description, c.kind, save)
          IN  /\ description = <<>> \/ (save /\ c.path = StrOf(Abs(locD)))
              /\ Apply(out)
              /\ created' = IF out.ok /\ save
                            THEN created \cup {out.paths[Len(out.paths)].path}
                            ELSE created
              /\ last' = Call("create", out.ok, c.path, description, c.kind, save,
                              NoSelector)
    /\ UNCHANGED <<pc, cwd, project_root, loaded>>
    /\ UNCHANGED generated

Remove ==
    /\ Ready
    /\ \E sel \in Selectors(paths) \cup Combined(paths) :
          \E out \in remove_path_and_from_csv(sel) :
              /\ Apply(out)
              /\ last' = Call("remove", out.ok, None, None, "none", FALSE, sel)
    /\ UNCHANGED <<pc, cwd, project_root, loaded, created>>
    /\ UNCHANGED generated

\* edit_csv_to_add_path; the description is "", and for /r/d also a text
EditAdd ==
    /\ Ready
    /\ \E path \in PathArgs, description \in Descriptions :
          LET out == edit_csv_to_add_path(path, description)
          IN  /\ description = <<>> \/ path = StrOf(Abs(locD))
              /\ Apply(out)
              /\ last' = Call("edit_add", out.ok, path, description, "none", TRUE,
                              NoSelector)
    /\ UNCHANGED <<pc, cwd, project_root, loaded, created>>
    /\ UNCHANGED generated

EditRemove ==
    /\ Ready
    /\ \E sel \in Selectors(paths) :
          LET out == edit_csv_to_remove_path(sel)
          IN  /\ Apply(out)
              /\ last' = Call("edit_remove", out.ok, None, None, "none", FALSE, sel)
    /\ UNCHANGED <<pc, cwd, project_root, loaded, created>>
    /\ UNCHANGED generated

Next == Construct \/ Create \/ Remove \/ EditAdd \/ EditRemove

Spec == Init /\ [][Next]_vars

(***************************************************************************)
(* schema.py called on its own: PathEntry, check_header and normalize_name *)
(* applied once to arguments drawn from bounded sets.  `last` holds the    *)
(* call and what it gave; nothing else changes.                            *)
(***************************************************************************)
MaxHeaderLen == 5   \* the fields of a header handed to check_header
MaxNameLen == 4     \* the characters of a name handed to normalize_name

EntryIds == {0 - 1, 0, 1}

EntryNames ==
    {<<>>, nD, nF, nH, n7, <<".", "e">>, <<"a", "/", "b">>, <<"a", " ", "b">>,
     <<"a", "-", "/">>}

EntryPaths == {<<>>, StrOf(Abs(locD))}

EntryDescriptions == {NoneCell, Str(<<>>), Str(tX)}

HeaderFields == {"id", "name", "path", "description", "desc"}

Headers == UNION {[1..n -> HeaderFields] : n \in 0..MaxHeaderLen}

NameChars == {".", "a", "_"}

Names ==
    UNION {[1..n -> NameChars] : n \in 0..MaxNameLen}
    \cup { <<".", "e", "n", "v", ".", "l", "o", "c", "a", "l">>,
           <<"r", "e", "p", "o", "r", "t", ".", "f", "i", "n", "a", "l", ".",
             "c", "s", "v">>,
           <<".", "g", "i", "t", "i", "g", "n", "o", "r", "e">> }

SchemaInit ==
    /\ pc = "schema"
    /\ paths = <<>>
    /\ csv = AbsentFile
    /\ dirs = BaseDirs
    /\ files = {}
    /\ cwd = Root
    /\ project_root = NoRoot
    /\ calls = 0
    /\ held = {}
    /\ loaded = <<>>
    /\ created = {}
    /\ last = [op |-> "none"]
    /\ module_file = NotWritten
    /\ init_file = NotWritten

SchemaFrame ==
    /\ pc' = "called"
    /\ UNCHANGED <<paths, csv, dirs, files, cwd, project_root, calls, held, loaded,
                   created,
                   module_file, init_file>>

\* PathEntry(id=..., name=..., path=..., description=...)
ValidateEntry ==
    /\ pc = "schema"
    /\ \E id \in EntryIds, name \in EntryNames, path \in EntryPaths,
          description \in EntryDescriptions :
          last' = [op |-> "PathEntry", id |-> id, name |-> name, path |-> path,
                   description |-> description,
                   ok |-> EntryOk(id, Str(name), Str(path), description),
                   errors |-> validation_errors(id, Str(name), Str(path), description)]
    /\ SchemaFrame

\* check_header(header)
CheckHeader ==
    /\ pc = "schema"
    /\ \E header \in Headers :
          last' = [op |-> "check_header", header |-> header,
                   result |-> check_header(header),
                   message |-> check_header_message(header)]
    /\ SchemaFrame

\* normalize_name(name)
NormalizeName ==
    /\ pc = "schema"
    /\ \E name \in Names :
          last' = [op |-> "normalize_name", name |-> name,
                   result |-> normalize_name(name)]
    /\ SchemaFrame

SchemaNext == ValidateEntry \/ CheckHeader \/ NormalizeName

SchemaSpec == SchemaInit /\ [][SchemaNext]_vars

(***************************************************************************)
(* generate_paths.py: the module generator, run once on a backing file.    *)
(* Of the module it writes, the model keeps the lines that depend on the   *)
(* file: one constant per key of the dict `paths`, then one line of the    *)
(* get_path docstring per key.  __init__.py depends on the module name     *)
(* only.                                                                   *)
(***************************************************************************)
MaxRows == 3        \* the data rows of a backing file handed to the generator

\* paths[name] = path on an insertion-ordered dict: a key already there keeps
\* its place and takes the new value
dict_set(d, name, path) ==
    IF \E k \in 1..Len(d) : d[k].name = name
    THEN [k \in 1..Len(d) |-> IF d[k].name = name THEN [d[k] EXCEPT !.path = path]
                              ELSE d[k]]
    ELSE Append(d, [name |-> name, path |-> path])

RECURSIVE collect_valid(_, _, _)
\* the loop of the mutant generate_paths_skipping_rows
collect_valid(rows, i, acc) ==
    IF i > Len(rows) THEN [raised |-> FALSE, paths |-> acc]
    ELSE IF IdRaises(rows, i) \/ ~RowOk(rows, i) THEN collect_valid(rows, i + 1, acc)
    ELSE collect_valid(rows, i + 1,
                       dict_set(acc, RowEntry(rows, i).name, RowEntry(rows, i).path))

RECURSIVE collect_paths(_, _, _)
\* the loop over df.iterrows(): a row that int() or PathEntry rejects raises
collect_paths(rows, i, acc) ==
    IF i > Len(rows) THEN [raised |-> FALSE, paths |-> acc]
    ELSE IF IdRaises(rows, i) \/ ~RowOk(rows, i) THEN [raised |-> TRUE, paths |-> acc]
    ELSE collect_paths(rows, i + 1,
                       dict_set(acc, RowEntry(rows, i).name, RowEntry(rows, i).path))

\* the lines of the module that depend on the dict
module_lines(d) ==
    [k \in 1..Len(d) |->
        [line |-> "constant", ident |-> normalize_name(d[k].name), value |-> d[k].path]]
    \o [k \in 1..Len(d) |->
        [line |-> "doc", ident |-> normalize_name(d[k].name), value |-> d[k].path]]

init_lines == <<[line |-> "load_generated_paths_module"]>>

\* what a run of the generator leaves
Generated(raised, mod, ini) == [raised |-> raised, module_file |-> mod, init_file |-> ini]

\* mutant of generate_paths: rows that fail are skipped and the module is
\* written from the others
generate_paths_skipping_rows(f, mod, ini) ==
    LET got == collect_valid(f.rows, 1, <<>>)
    IN  IF ~f.exists \/ ZeroLength(f) THEN Generated(TRUE, mod, ini)
        ELSE IF ~check_header(f.header) THEN Generated(TRUE, mod, ini)
        ELSE Generated(FALSE, Written(module_lines(got.paths)), Written(init_lines))

\* generate_paths: f the backing file, mod and ini the two output files as
\* they are before the run
generate_paths(f, mod, ini) ==
    LET got == collect_paths(f.rows, 1, <<>>)
    IN  IF ~f.exists \/ ZeroLength(f) THEN Generated(TRUE, mod, ini)
        ELSE IF ~check_header(f.header) THEN Generated(TRUE, mod, ini)
        ELSE IF f.rows = <<>> THEN Generated(TRUE, mod, ini)
        ELSE IF got.raised THEN Generated(TRUE, mod, ini)
        ELSE Generated(FALSE, Written(module_lines(got.paths)), Written(init_lines))

\* rows for the generator: two that share a name, two whose names normalize
\* to the same identifier, one with a negative id, one whose id is no number
GenRows ==
    { rowD,
      rowE(<<"3">>),
      Row(<<"2">>, nD, StrOf(Abs(locE)), tX),
      Row(<<"4">>, nF, StrOf(Abs(locF)), tX),
      Row(<<"5">>, <<"f", "_", "t">>, StrOf(Abs(loc7)), tX),
      rowE(<<"-", "1">>),
      rowE(<<"x">>) }

GenFiles ==
    InitFiles \cup
    {File(ExpectedHeader, rows) : rows \in UNION {[1..n -> GenRows] : n \in 1..MaxRows}}

\* the output files of an earlier run
OldOutputs ==
    { [module_file |-> NotWritten, init_file |-> NotWritten],
      [module_file |-> Written(module_lines(<<[name |-> nZ, path |-> tX]>>)),
       init_file |-> Written(init_lines)] }

GeneratorInit ==
    /\ pc = "generator"
    /\ paths = <<>>
    /\ csv \in GenFiles
    /\ dirs = BaseDirs
    /\ files = {}
    /\ cwd = Root
    /\ project_root = NoRoot
    /\ calls = 0
    /\ held = {}
    /\ loaded = <<>>
    /\ created = {}
    /\ last = [op |-> "none"]
    /\ \E o \in OldOutputs : module_file = o.module_file /\ init_file = o.init_file

\* one run of generate_paths
Generate ==
    /\ pc = "generator"
    /\ LET out == generate_paths(csv, module_file, init_file)
       IN  /\ pc' = IF out.raised THEN "failed" ELSE "generated"
           /\ module_file' = out.module_file
           /\ init_file' = out.init_file
           /\ last' = [op |-> "generate", ok |-> ~out.raised,
                       pre_module |-> module_file, pre_init |-> init_file]
    /\ UNCHANGED <<paths, csv, dirs, files, cwd, project_root, calls, held, loaded,
                   created>>

\* Path(""), what get_path gives for a name the class has no attribute for
EmptyPath == <<>>

\* the class attributes the module defines: of the constants with one
\* identifier, the last assignment stands
Constants(mod) == SelectSeq(mod.lines, LAMBDA l : l.line = "constant")

\* PathArchives.get_path of the written module:
\* getattr(PathArchives, name, None) or Path("")
get_path(mod, name) ==
    LET cs == Constants(mod)
        hits == {k \in 1..Len(cs) : cs[k].ident = name}
    IN  IF hits = {} THEN EmptyPath
        ELSE cs[CHOOSE k \in hits : \A j \in hits : j <= k].value

\* the names looked up: those of the records, their identifiers, and one
\* that no record has
LookupNames ==
    {csv.rows[i].name : i \in 1..Len(csv.rows)}
    \cup {normalize_name(csv.rows[i].name) : i \in 1..Len(csv.rows)}
    \cup {nZ}

\* one call of get_path on the module a run has written
GetPath ==
    /\ pc = "generated"
    /\ \E name \in LookupNames :
          last' = [op |-> "get_path", name |-> name,
                   result |-> get_path(module_file, name)]
    /\ pc' = "looked"
    /\ UNCHANGED <<paths, csv, dirs, files, cwd, project_root, calls, held, loaded,
                   created,
                   module_file, init_file>>

GeneratorNext == Generate \/ GetPath

GeneratorSpec == GeneratorInit /\ [][GeneratorNext]_vars

(***************************************************************************)
(* Properties.  Each is read on the state a call leaves: `last` holds the  *)
(* call and the state before it.                                           *)
(***************************************************************************)
\* the call added an entry to the registry
Added == last.ok /\ (last.op = "edit_add" \/ (last.op = "create" /\ last.save))

\* the call was one of the mutating operations (create with persist on, remove, edits)
Mutating ==
    \/ last.op \in {"remove", "edit_add", "edit_remove"}
    \/ last.op = "create" /\ last.save

NewEntry == paths[Len(paths)]

\* the location the path argument of the last call names
ArgLocation == Resolve(PathOf(last.path), cwd)

\* the text under which create registers that location
ArgText ==
    IF project_root = NoRoot THEN StrOf(Abs(ArgLocation))
    ELSE StrOf(Rel(SubSeq(ArgLocation, Len(project_root) + 1, Len(ArgLocation))))

ArgRegistrable == project_root = NoRoot \/ IsPrefix(project_root, ArgLocation)

RecordsFor(ps, text) == {i \in 1..Len(ps) : ps[i].path = text}

\* the directory or file a remove call resolved its selector to, as the code locates it
Found == find_target_path(last.pre_paths, last.sel)
Target == Resolve(PathOf(Found), cwd)
Located(text) == Resolve(PathOf(text), cwd)

RemovedDirectory ==
    /\ last.op = "remove"
    /\ last.pre_paths # <<>>
    /\ Found # None
    /\ Target \in last.pre_dirs

\* C1: a path that create has already registered on this object is rejected
\* when create is called for it again, and the registry keeps one record for it.
C1_SecondCreateRejected ==
    (/\ last.op = "create"
     /\ last.save
     /\ ArgRegistrable
     /\ ArgText \in last.pre_created
     /\ RecordsFor(last.pre_paths, ArgText) # {})
    => (~last.ok /\ Cardinality(RecordsFor(paths, ArgText)) = 1)

\* the list is one that a save followed by a load gives back (see C8)
SurvivesReload(ps) ==
    ~LoadPaths(SavePaths(ps)).raised /\ LoadPaths(SavePaths(ps)).paths = ps

\* C2: after every mutating operation, successful or not, loading the backing
\* file again gives exactly the in-memory list.  Stated for the lists that a
\* save and a load give back at all, so that a violation is a file left behind
\* the memory and not a field that read_csv reads differently.
C2_FileReloadsToMemory ==
    (Mutating /\ SurvivesReload(paths))
    => (~LoadPaths(csv).raised /\ LoadPaths(csv).paths = paths)

\* C3: after remove on a registered directory, neither the directory nor
\* anything under it is on disk, in the list or in the file.
C3_SubtreeGone ==
    RemovedDirectory =>
        /\ \A q \in dirs \cup files : ~IsPrefix(Target, q)
        /\ \A i \in 1..Len(paths) : ~IsPrefix(Target, Located(paths[i].path))
        /\ \A i \in 1..Len(csv.rows) : ~IsPrefix(Target, Located(csv.rows[i].path))

\* C4: a remove call that does not ask for subtree removal leaves a directory
\* that holds entries, the list and the file as they were.
C4_NonEmptyDirectoryRefused ==
    (RemovedDirectory /\ ChildrenOn(last.pre_dirs, last.pre_files, Target) # {})
    => (/\ dirs = last.pre_dirs
        /\ files = last.pre_files
        /\ paths = last.pre_paths
        /\ csv = last.pre_csv)

\* C5: no two entries of the in-memory list have the same id.
C5_IdsUnique ==
    pc = "ready" =>
        \A i, j \in 1..Len(paths) : paths[i].id = paths[j].id => i = j

\* C6 (as claimed): a new entry never gets an id that an entry of this object
\* has held before.
C6_IdNeverReused == Added => NewEntry.id \notin last.pre_held

\* C6 (amended): a new entry gets an id greater than the id of every entry
\* still in the list; an id held before can come back once no entry with that
\* id or a greater one is left.
C6_IdAbovePresentIds ==
    Added => \A i \in 1..Len(last.pre_paths) : last.pre_paths[i].id < NewEntry.id

C6_AddedAfterRemoval ==
    /\ Added
    /\ last.pre_paths # <<>>
    /\ last.pre_held \ Ids(last.pre_paths) # {}

\* C7: create and edit_add give the new entry the id max(ids in the list) + 1,
\* and 1 when the list is empty.
C7_NewIdIsMaxPlusOne ==
    Added =>
        /\ paths = Append(last.pre_paths, NewEntry)
        /\ IF last.pre_paths = <<>> THEN NewEntry.id = 1
           ELSE /\ \E i \in 1..Len(last.pre_paths) : last.pre_paths[i].id = NewEntry.id - 1
                /\ \A i \in 1..Len(last.pre_paths) : last.pre_paths[i].id <= NewEntry.id - 1

C7_FourAfterOneAndThree ==
    Added /\ Ids(last.pre_paths) = {1, 3} /\ NewEntry.id = 4

\* C8: saving the in-memory list and loading the file back gives the same
\* records, field for field and in order.
C8_SaveLoadRoundTrip ==
    pc = "ready" =>
        LoadPaths(SavePaths(paths)) =
            [raised |-> FALSE, paths |-> paths, error_paths |-> <<>>]

\* C9: load gives the empty list for an absent, zero-length or header-only
\* file, and raises for any other file whose header is not the canonical one.
C9_LoadEmptyOrHeaderError ==
    last.op = "load" =>
        LET f == last.pre_csv
        IN  /\ (~f.exists \/ ZeroLength(f) \/ (f.header = ExpectedHeader /\ f.rows = <<>>))
                => (pc = "ready" /\ paths = <<>>)
            /\ (f.exists /\ ~ZeroLength(f) /\ f.header # ExpectedHeader)
                => pc = "crashed"

C9_BadHeaderWithRowsRaised ==
    /\ last.op = "load"
    /\ last.pre_csv.rows # <<>>
    /\ last.pre_csv.header # ExpectedHeader
    /\ pc = "crashed"

\* the entry the claimed precedence picks: by id when an id is given, else the
\* first entry with the name when a name is given, else an entry with the path
ClaimedIndex(ps, sel) ==
    LET byId == {i \in 1..Len(ps) : ps[i].id = sel.id}
        byName == {i \in 1..Len(ps) : ps[i].name = sel.name}
        byPath == {i \in 1..Len(ps) : ps[i].path = sel.path}
        pick == IF sel.hid THEN byId
                ELSE IF sel.name # None THEN byName
                ELSE IF sel.path # None THEN byPath
                ELSE {}
    IN  IF pick = {} THEN 0 ELSE First(pick)

\* C11: remove resolves its selector by id, then name (first entry with it),
\* then path; when the directory or file of that entry is on disk before the
\* call, it is not on disk after it and no entry with its path is left in the
\* list or in the file.
C11_ResolvedTargetRemoved ==
    LET k == ClaimedIndex(last.pre_paths, last.sel)
        text == last.pre_paths[k].path
    IN  (/\ last.op = "remove"
         /\ k # 0
         /\ ExistsOn(last.pre_dirs, last.pre_files, Located(text)))
        => (/\ ~ExistsOn(dirs, files, Located(text))
            /\ RecordsFor(paths, text) = {}
            /\ \A i \in 1..Len(csv.rows) : csv.rows[i].path # text)

\* C12: remove changes nothing (list, file, disk) and the object stays usable
\* when the list is empty, when the selector matches no entry, or when the
\* directory or file of the matched entry is not on disk.
C12_NothingToRemoveNoMutation ==
    LET k == ClaimedIndex(last.pre_paths, last.sel)
    IN  (/\ last.op = "remove"
         /\ \/ last.pre_paths = <<>>
            \/ k = 0
            \/ ~ExistsOn(last.pre_dirs, last.pre_files,
                         Located(last.pre_paths[k].path)))
        => (/\ pc = "ready"
            /\ paths = last.pre_paths
            /\ csv = last.pre_csv
            /\ dirs = last.pre_dirs
            /\ files = last.pre_files)

\* a remove whose selector matched an entry that is not on disk
C12_MissingTargetLeftAlone ==
    LET k == ClaimedIndex(last.pre_paths, last.sel)
    IN  /\ last.op = "remove"
        /\ k # 0
        /\ ~ExistsOn(last.pre_dirs, last.pre_files, Located(last.pre_paths[k].path))
        /\ paths = last.pre_paths
        /\ paths # <<>>

\* the filesystem step of the last create call can succeed: no file stands
\* where a directory is needed, and the directory of a new file is there
ArgCreatable ==
    IF last.kind = "dir" THEN Prefixes(ArgLocation) \cap last.pre_files = {}
    ELSE \/ ArgLocation \in last.pre_dirs \cup last.pre_files
         \/ ParentOf(ArgLocation) \in last.pre_dirs

\* C13: create with persist off puts the directory or file on disk and
\* returns its path, and leaves the list and the file as they were.  Stated
\* for targets the configuration can register (under the project root, when
\* one is set) and the filesystem can create.
C13_UnregisteredCreate ==
    (/\ last.op = "create"
     /\ ~last.save
     /\ ArgRegistrable
     /\ ArgCreatable)
    => (/\ last.ok
        /\ ArgLocation \in (IF last.kind = "dir" THEN dirs ELSE dirs \cup files)
        /\ paths = last.pre_paths
        /\ csv = last.pre_csv)

\* the segments of the resolved target below the project root
BelowRoot == SubSeq(ArgLocation, Len(project_root) + 1, Len(ArgLocation))

\* C14: the path create stores is the resolved target written relative to
\* the project root when one is configured, and the resolved absolute target
\* when none is.
C14_StoredPathRootRelative ==
    (Added /\ last.op = "create") =>
        NewEntry.path =
            IF project_root = NoRoot THEN <<"/">> \o JoinSlash(ArgLocation)
            ELSE IF BelowRoot = <<>> THEN <<".">>
            ELSE JoinSlash(BelowRoot)

\* a create under a configured root, given an absolute path below the root
C14_RootedCreateRegistered ==
    /\ Added
    /\ last.op = "create"
    /\ project_root # NoRoot
    /\ last.path[1] = "/"
    /\ NewEntry.path[1] # "/"

ListedPunctuation ==
    {" ", "!", "@", "#", "$", "%", "^", "&", "*", "(", ")", "-", "+", "=",
     "[", "]", "{", "}", "|", "\\", ":", ";", "'", "\"", ",", "<", ">", "?",
     Backtick, "~"}

\* PathEntry accepts exactly the arguments with id >= 0, a non-empty name
\* without "/" and without a character of `banned`, and a non-empty path;
\* each failing field is reported with the message of its validator
AcceptsExactly(banned) ==
    last.op = "PathEntry" =>
        /\ last.ok <=> (/\ last.id >= 0
                        /\ last.name # <<>>
                        /\ ~HasChar(last.name, {"/"})
                        /\ ~HasChar(last.name, banned)
                        /\ last.path # <<>>)
        /\ last.ok <=> last.errors = {}
        /\ last.id < 0 <=> "id must be positive" \in last.errors
        /\ last.name = <<>> <=> "name must not be empty" \in last.errors
        /\ HasChar(last.name, banned)
               <=> "name must not contain invalid chars" \in last.errors
        /\ (HasChar(last.name, {"/"}) /\ ~HasChar(last.name, banned))
               <=> "name is file or directory name, not a path" \in last.errors
        /\ last.path = <<>> <=> "path must not be empty" \in last.errors

IsPermutation(header) ==
    /\ Len(header) = 4
    /\ {header[i] : i \in 1..Len(header)} = {"id", "name", "path", "description"}

\* C17: check_header is True only for <<id, name, path, description>>; any
\* other ordering of the four fields gives False and the order diagnostic;
\* a header with a different field set gives False and the invalid-header
\* diagnostic; the order diagnostic is given for permutations only.
C17_HeaderDiagnostics ==
    last.op = "check_header" =>
        LET h == last.header
            fields == {h[i] : i \in 1..Len(h)}
        IN  /\ last.result <=> h = <<"id", "name", "path", "description">>
            /\ (IsPermutation(h) /\ ~last.result)
                   => last.message = "Header order is incorrect."
            /\ fields # {"id", "name", "path", "description"}
                   => (~last.result /\ last.message = "Invalid header in CSV file.")
            /\ last.message = "Header order is incorrect." => IsPermutation(h)

\* C18: normalize_name turns every dot but a leading one into an underscore
\* and changes nothing else; .env.local gives .env_local, report.final.csv
\* gives report_final_csv, .gitignore stays; normalizing twice is
\* normalizing once.
C18_NormalizeName ==
    last.op = "normalize_name" =>
        LET n == last.name
            r == last.result
        IN  /\ Len(r) = Len(n)
            /\ \A i \in 1..Len(n) :
                   r[i] = IF n[i] = "." /\ i > 1 THEN "_" ELSE n[i]
            /\ normalize_name(r) = r
            /\ n = <<".", "e", "n", "v", ".", "l", "o", "c", "a", "l">>
                   => r = <<".", "e", "n", "v", "_", "l", "o", "c", "a", "l">>
            /\ n = <<"r", "e", "p", "o", "r", "t", ".", "f", "i", "n", "a", "l", ".",
                     "c", "s", "v">>
                   => r = <<"r", "e", "p", "o", "r", "t", "_", "f", "i", "n", "a", "l",
                           "_", "c", "s", "v">>
            /\ n = <<".", "g", "i", "t", "i", "g", "n", "o", "r", "e">> => r = n

\* normalize_name applied to a name with a leading dot and a later one
C18_LeadingDotKept ==
    /\ last.op = "normalize_name"
    /\ last.name = <<".", "e", "n", "v", ".", "l", "o", "c", "a", "l">>
    /\ last.result = <<".", "e", "n", "v", "_", "l", "o", "c", "a", "l">>

\* a data row that int() or PathEntry rejects
BadRow(rows, i) == IdRaises(rows, i) \/ ~RowOk(rows, i)

C20_OneConstantPerRecord ==
    (last.op = "generate" /\ last.ok) =>
        SelectSeq(module_file.lines, LAMBDA l : l.line = "constant") =
            [i \in 1..Len(csv.rows) |->
                [line |-> "constant",
                 ident |-> normalize_name(csv.rows[i].name),
                 value |-> csv.rows[i].path]]

\* C21: get_path of the generated module, called with the name of a record
\* of the registry, gives the path of the first record with that name, and
\* the empty path for a name no record has.
C21_LookupFirstMatch ==
    last.op = "get_path" =>
        LET named == {i \in 1..Len(csv.rows) : csv.rows[i].name = last.name}
        IN  IF named = {} THEN last.result = <<>>
            ELSE last.result = csv.rows[First(named)].path

\* C22 (as claimed): edit_add leaves the filesystem alone and appends one
\* entry, saved to the file, whose id, name and stored path are those create
\* would have recorded: the path relative to the project root when one is
\* configured.
C22_EditAddStoresAsCreate ==
    (last.op = "edit_add" /\ last.ok /\ ArgRegistrable) =>
        /\ dirs = last.pre_dirs /\ files = last.pre_files
        /\ Len(paths) = Len(last.pre_paths) + 1
        /\ SubSeq(paths, 1, Len(last.pre_paths)) = last.pre_paths
        /\ NewEntry.id = next_id(last.pre_paths)
        /\ NewEntry.name = ArgLocation[Len(ArgLocation)]
        /\ NewEntry.path = ArgText
        /\ csv = SavePaths(paths)

\* the last segment of the path argument is a name PathEntry accepts
ArgNameValid == NameOk(Str(ArgLocation[Len(ArgLocation)]))

\* C22 (amended): edit_add leaves the filesystem alone; for a path whose last
\* segment is a valid name it appends one entry, saved to the file, with the
\* id and the name create records and, as the stored path, the resolved
\* absolute path, whether or not a project root is configured; for any other
\* path it changes nothing.
C22_EditAddStoresAbsolute ==
    last.op = "edit_add" =>
        /\ dirs = last.pre_dirs /\ files = last.pre_files
        /\ last.ok = ArgNameValid
        /\ IF ArgNameValid
           THEN /\ Len(paths) = Len(last.pre_paths) + 1
                /\ SubSeq(paths, 1, Len(last.pre_paths)) = last.pre_paths
                /\ NewEntry.id = next_id(last.pre_paths)
                /\ NewEntry.name = ArgLocation[Len(ArgLocation)]
                /\ NewEntry.path = StrOf(Abs(ArgLocation))
                /\ csv = SavePaths(paths)
           ELSE paths = last.pre_paths /\ csv = last.pre_csv

\* C22 witness: under a project root, edit_add has recorded a location below
\* the root.
C22_RootedEditAdd ==
    /\ last.op = "edit_add" /\ last.ok
    /\ project_root # NoRoot
    /\ IsPrefix(project_root, ArgLocation)
    /\ Len(paths) = Len(last.pre_paths) + 1

\* C23: edit_remove called with the id of an entry of the list, 0 included,
\* takes the entries with that id out of the list and of the file, keeps the
\* others in their order, and leaves the filesystem as it was.
C23_EditRemoveById ==
    (/\ last.op = "edit_remove"
     /\ last.sel.hid
     /\ last.sel.id \in Ids(last.pre_paths))
    => (/\ paths = SelectSeq(last.pre_paths, LAMBDA p : p.id # last.sel.id)
        /\ csv = SavePaths(paths)
        /\ dirs = last.pre_dirs
        /\ files = last.pre_files)

\* the location an entry denotes: its stored path, taken from the project root
\* when it is relative and a root is configured
Denoted(text) ==
    LET p == PathOf(text)
    IN  IF p.abs THEN p.segs
        ELSE IF project_root # NoRoot THEN project_root \o p.segs
        ELSE cwd \o p.segs

\* C24: on an object whose registry was empty at construction, after any
\* calls of create, edit_add, remove and edit_remove no two entries of the
\* list denote the same location.
C24_LocationsUnique ==
    (pc = "ready" /\ loaded = <<>>) =>
        \A i, j \in 1..Len(paths) :
            Denoted(paths[i].path) = Denoted(paths[j].path) => i = j

\* C25: when the deletion of a registered directory fails part-way, the list
\* and the file both still hold every entry they held before the call.
C25_FailedRemoveKeepsEntries ==
    (RemovedDirectory /\ ~last.ok)
    => (paths = last.pre_paths /\ csv = last.pre_csv)

\* C26: a create call that fails (the entry does not validate, the target is
\* outside the project root, the filesystem refuses) leaves the directories,
\* the files, the list and the backing file as they were.
C26_FailedCreateLeavesNothing ==
    (last.op = "create" /\ ~last.ok)
    => (/\ dirs = last.pre_dirs
        /\ files = last.pre_files
        /\ paths = last.pre_paths
        /\ csv = last.pre_csv)

\* C26 witness: a create call with persist on has failed for an entry that
\* does not validate, on a list that held entries.
C26_InvalidCreateFailed ==
    /\ last.op = "create" /\ ~last.ok /\ last.save
    /\ ArgRegistrable
    /\ ~ArgNameValid
    /\ last.pre_paths # <<>>

\* C27: when the selector resolves to a plain file that is on disk,
\* edit_remove takes out of the list the entries remove would take out: those
\* at the path of the first match, and no other entry with the same name.
C27_EditRemoveAsRemove ==
    (/\ last.op = "edit_remove"
     /\ Found # None
     /\ Target \in last.pre_files)
    => paths = SelectSeq(last.pre_paths,
                         LAMBDA p : ~IsPrefix(Target, Located(p.path)))

\* the location under the project root that the relative stored path of the
\* resolved entry names
RootTarget == project_root \o PathOf(Found).segs

\* C28: for an entry stored relative to the project root, remove works on the
\* project root joined with the stored path, whatever the working directory:
\* a file or a directory without sub-directories found there is deleted, and
\* nothing outside that location is.
C28_RemoveFromProjectRoot ==
    (/\ last.op = "remove"
     /\ project_root # NoRoot
     /\ Found # None
     /\ ~PathOf(Found).abs
     /\ ExistsOn(last.pre_dirs, last.pre_files, RootTarget)
     /\ ChildrenOn(last.pre_dirs, last.pre_files, RootTarget) \cap last.pre_dirs = {})
    => (/\ ~ExistsOn(dirs, files, RootTarget)
        /\ \A q \in (last.pre_dirs \cup last.pre_files) \ (dirs \cup files) :
               IsPrefix(RootTarget, q))

\* a is b with some elements left out
RECURSIVE IsSubseq(_, _)
IsSubseq(a, b) ==
    IF a = <<>> THEN TRUE
    ELSE IF b = <<>> THEN FALSE
    ELSE IF Head(a) = Head(b) THEN IsSubseq(Tail(a), Tail(b))
    ELSE IsSubseq(a, Tail(b))

\* the entries of a list that are not at or under the target of the last call
Outside(ps) == SelectSeq(ps, LAMBDA p : ~IsPrefix(Target, Located(p.path)))

Deregistered ==
    {DumpRow(last.pre_paths[k]) :
        k \in {j \in 1..Len(last.pre_paths) :
                  \A i \in 1..Len(paths) : paths[i] # last.pre_paths[j]}}

\* C30 (as claimed): a mutating operation that saves leaves in the file every
\* row that was there before, other than the rows of the entries it
\* deregistered; the rows that did not validate at load are among them.
C30_OtherRowsKept ==
    (Mutating /\ last.ok) =>
        \A i \in 1..Len(last.pre_csv.rows) :
            \/ \E j \in 1..Len(csv.rows) : csv.rows[j] = last.pre_csv.rows[i]
            \/ last.pre_csv.rows[i] \in Deregistered

\* C30 (amended): after a mutating operation that saves, the file holds the
\* canonical header and exactly the rows of the entries of the list, in the
\* order of the list; a row that did not validate at load is in no entry and
\* is not written back.
C30_SavedFileIsTheList ==
    (Mutating /\ last.ok) =>
        /\ csv.exists
        /\ csv.header = ExpectedHeader
        /\ csv.rows = [i \in 1..Len(paths) |-> DumpRow(paths[i])]

\* C30 witness: the first call on an object whose backing file held a row
\* that did not validate at load has saved.
C30_SavedOverRejectedRow ==
    /\ Mutating /\ last.ok
    /\ calls = 1
    /\ Len(last.pre_csv.rows) > Len(loaded)

\* C10: with a valid header load always completes; every row is either loaded
\* or reported with its position.
C10_BadRowsNeverFatal ==
    (last.op = "load" /\ last.pre_csv.exists /\ last.pre_csv.header = ExpectedHeader)
    => (/\ pc = "ready"
        /\ Len(paths) + Len(LoadPaths(last.pre_csv).error_paths) = Len(last.pre_csv.rows))

====
